---------------------------- MODULE Spec2Model ----------------------------
(***************************************************************************)
(* A model of the BVH viewer (src/script.js): the BVH text parser          *)
(* (parseBVH, parseHierarchy, parseMotion), the pose evaluator             *)
(* (Animator.update / transformJoint), the clip aligner and blend          *)
(* generator (stitch_motion), and the page's init() and GUI handlers that  *)
(* drive them; and of the page of the single-clip variant                  *)
(* (src/unnamed/part_000), which shares the parser and the evaluator.      *)
(*                                                                         *)
(* Conventions.                                                            *)
(*  - A text is a sequence of raw lines; a line is a sequence of tokens    *)
(*    that single blanks separate.  The token WS stands for extra white    *)
(*    space (at either end of a line, or between two tokens).              *)
(*  - A JavaScript value is a record [t, n, d]: t = "num" with the         *)
(*    rational n/d (d > 0, lowest terms), or one of "NaN", "undefined",    *)
(*    "null" (n = 0, d = 1).  Arithmetic is exact: floating-point rounding *)
(*    is not modelled.                                                     *)
(*  - Angles in radians are kept as rational multiples of pi.              *)
(*  - JavaScript indices are 0-based and are kept 0-based; At(a, i) reads  *)
(*    a[i] and gives undefined outside the array.  NoIdx is the index -1   *)
(*    (or undefined) that names no element.                                *)
(*  - Joint objects live in a heap (a sequence of records); a joint        *)
(*    reference is its position in the heap, 0 is null.                    *)
(***************************************************************************)
EXTENDS Integers, Sequences, FiniteSets, TLC

VARIABLES
    bvhText_1,   \* text fetched for clip A (init, script.js:893)
    bvhText_2,   \* text fetched for clip B (init, script.js:894)
    initState,   \* "pending" | "done" | "failed" | "hung": how init() ended
    clipA,       \* [root, m1] = parseBVH(bvhText_1), with the joints parsed
    clipB,       \* [r2, m2] = parseBVH(bvhText_2)
    motionData,  \* stitch_motion(root, m1, r2, m2)
    animator,    \* the global animator (<<>> is null)
    joints,      \* the heap of Joint objects of animator.root's tree
    lastUpdate,  \* what the last Animator.update() call did
    playButton,  \* playButton.innerText
    timers,      \* the interval timers of the Animators constructed so far
    uploads,     \* the init() runs started by uploads that await a fetch
    handler      \* the last GUI handler that ran, and the error it threw

vars == <<bvhText_1, bvhText_2, initState, clipA, clipB, motionData,
          animator, joints, lastUpdate, playButton, timers, uploads, handler>>

---------------------------------------------------------------------------
(* JavaScript numbers *)

Abs(x) == IF x < 0 THEN -x ELSE x

RECURSIVE GCD(_, _)
GCD(a, b) == IF b = 0 THEN a ELSE GCD(b, a % b)

Rat(n, d) ==
    LET s == IF d < 0 THEN -1 ELSE 1
        g == GCD(Abs(n), Abs(d))
    IN  [t |-> "num", n |-> (s * n) \div g, d |-> (s * d) \div g]

I(n) == [t |-> "num", n |-> n, d |-> 1]

NaN == [t |-> "NaN", n |-> 0, d |-> 1]

Undefined == [t |-> "undefined", n |-> 0, d |-> 1]

Null == [t |-> "null", n |-> 0, d |-> 1]

IsNum(v) == v.t = "num"

\* ToNumber: what an arithmetic operator makes of its operand
ToNumber(v) ==
    IF v.t = "num" THEN v ELSE IF v.t = "null" THEN I(0) ELSE NaN

JsAdd(a, b) ==
    LET x == ToNumber(a)
        y == ToNumber(b)
    IN  IF IsNum(x) /\ IsNum(y) THEN Rat(x.n * y.d + y.n * x.d, x.d * y.d) ELSE NaN

JsSub(a, b) ==
    LET x == ToNumber(a)
        y == ToNumber(b)
    IN  IF IsNum(x) /\ IsNum(y) THEN Rat(x.n * y.d - y.n * x.d, x.d * y.d) ELSE NaN

JsMul(a, b) ==
    LET x == ToNumber(a)
        y == ToNumber(b)
    IN  IF IsNum(x) /\ IsNum(y) THEN Rat(x.n * y.n, x.d * y.d) ELSE NaN

\* floor and ceiling of the rational n/d, d > 0
FloorDiv(n, d) == IF n >= 0 THEN n \div d ELSE -((-n + d - 1) \div d)

CeilDiv(n, d) == -FloorDiv(-n, d)

\* THREE.MathUtils.degToRad: degrees * (pi / 180), in units of pi
rad(v) == JsMul(v, Rat(1, 180))

\* THREE.MathUtils.radToDeg: radians * (180 / pi)
radToDeg(v) == JsMul(v, I(180))

NoIdx == -1

\* an array given by its elements, each computed once
Array(f) == f \o <<>>

\* statements in sequence: v is computed, then Rest runs on it
Then(v, Rest(_)) == CHOOSE r \in { Rest(x) : x \in {v} } : TRUE

\* a[i] of a JavaScript array, 0-based
At(a, i) == IF i >= 0 /\ i < Len(a) THEN a[i + 1] ELSE Undefined

---------------------------------------------------------------------------
(* Text: lines and tokens *)

WS == " "

RECURSIVE TrimLeft(_)
TrimLeft(l) ==
    IF l = <<>> THEN l
    ELSE IF Head(l) = WS THEN TrimLeft(Tail(l)) ELSE l

RECURSIVE TrimRight(_)
TrimRight(l) ==
    IF l = <<>> THEN l
    ELSE IF l[Len(l)] = WS THEN TrimRight(SubSeq(l, 1, Len(l) - 1)) ELSE l

\* String.prototype.trim
Trim(l) == TrimRight(TrimLeft(l))

\* line.split(/\s+/) of a trimmed line
Split(l) == SelectSeq(l, LAMBDA t : t # WS)

\* pairs <<token, keyword>> where the token is longer than the keyword and
\* starts with it
TokenPrefixes == { <<"JOINTS", "JOINT">>, <<"Sites", "Site">> }

\* String.prototype.startsWith, for a keyword of one or two words
StartsWith(l, kw) ==
    /\ Len(l) >= Len(kw)
    /\ \A i \in 1..(Len(kw) - 1) : l[i] = kw[i]
    /\ \/ l[Len(kw)] = kw[Len(kw)]
       \/ <<l[Len(kw)], kw[Len(kw)]>> \in TokenPrefixes

\* ch[0]: the first character of a token; "#" is any character that is no
\* axis letter
FirstChar(tok) ==
    CASE tok \in {"Xposition", "Xrotation"} -> "X"
      [] tok \in {"Yposition", "Yrotation"} -> "Y"
      [] tok \in {"Zposition", "Zrotation"} -> "Z"
      [] OTHER -> "#"

\* the numerals of the model's texts, each with the rational it denotes
Numerals ==
    { <<"0", 0, 1>>, <<"1", 1, 1>>, <<"2", 2, 1>>, <<"3", 3, 1>>,
      <<"4", 4, 1>>, <<"5", 5, 1>>, <<"6", 6, 1>>, <<"7", 7, 1>>,
      <<"90", 90, 1>>, <<"180", 180, 1>>, <<"-90", -90, 1>>,
      <<"0.5", 1, 2>>, <<"0.25", 1, 4>>, <<"0.3", 3, 10>> }

\* parseFloat of a token: the number a numeral denotes, NaN for a word
parseFloat(tok) ==
    IF \E e \in Numerals : e[1] = tok
    THEN LET e == CHOOSE e \in Numerals : e[1] = tok IN Rat(e[2], e[3])
    ELSE NaN

\* parseInt of a token (or of undefined, when the token is missing): the
\* integer part of a numeral, NaN otherwise
parseInt(toks, i) ==
    IF i >= Len(toks) THEN NaN
    ELSE LET v == parseFloat(toks[i + 1])
         IN  IF IsNum(v)
             THEN I(IF v.n >= 0 THEN v.n \div v.d ELSE -((-v.n) \div v.d))
             ELSE NaN

\* parseFloat(toks[i]), NaN when toks[i] is undefined
parseFloatAt(toks, i) == IF i >= Len(toks) THEN NaN ELSE parseFloat(toks[i + 1])

---------------------------------------------------------------------------
(* Model: class Joint *)

Vec3(x, y, z) == [x |-> x, y |-> y, z |-> z]

\* new THREE.Quaternion(), Quaternion.identity()
QIdentity == [kind |-> "identity", x |-> I(0), y |-> I(0), z |-> I(0), order |-> <<>>]

\* A string of axis letters (channel_order.join("")) is kept as the sequence
\* of its characters.  These are the Euler orders three.js knows.
EulerOrders ==
    { <<"X", "Y", "Z">>, <<"Y", "X", "Z">>, <<"Z", "X", "Y">>,
      <<"Z", "Y", "X">>, <<"Y", "Z", "X">>, <<"X", "Z", "Y">> }

\* new Joint(name): offset = new THREE.Vector3(), position = offset.clone()
NewJoint(name) ==
    [ name          |-> name,
      offset        |-> Vec3(I(0), I(0), I(0)),
      channels      |-> <<>>,
      channel_order |-> <<>>,
      quaternion    |-> QIdentity,
      parent        |-> 0,
      children      |-> <<>>,
      position      |-> Vec3(I(0), I(0), I(0)) ]

\* a faulty variant of addChild: the child's parent is not set
addChildUnowned(js, parent, child) ==
    [js EXCEPT ![parent].children = Append(@, child)]

\* parent.addChild(child) on the heap js
addChild(js, parent, child) ==
    [js EXCEPT ![child].parent = parent,
               ![parent].children = Append(@, child)]

---------------------------------------------------------------------------
(* Parser: parseHierarchy *)

\* The parser's state: the shared cursor `index`, the heap of joints created
\* so far, the joint the last parseJoint call returned (ret), the error
\* thrown ("" while none), and, for the record, the indices of the
\* declaration lines consumed (decls).
ParseState0 ==
    [index |-> 1, js |-> <<>>, ret |-> 0, err |-> "", decls |-> {}]

\* the name of a declared joint: "EndSite", or the second token of the line
\* (undefined when the line has one token)
JointName(line) ==
    IF StartsWith(line, <<"End", "Site">>) THEN "EndSite"
    ELSE IF Len(Split(line)) >= 2 THEN Split(line)[2] ELSE "undefined"

\* a faulty variant of IsBlockOpen: the line after a declaration is
\* consumed without being looked at
BlockOpenUnchecked(h, i) == TRUE

\* the block-open test of parseJoint: hierarchy[index++] !== "{"
IsBlockOpen(h, i) == i < Len(h) /\ h[i + 1] = <<"{">>

\* joint.channel_order = joint.channels.slice(-3).map((ch) => ch[0])
ChannelOrder(channels) ==
    LET n == Len(channels)
        last3 == IF n <= 3 THEN channels ELSE SubSeq(channels, n - 2, n)
    IN  Array([i \in 1..Len(last3) |-> FirstChar(last3[i])])

\* the OFFSET branch: parts = line.split(/\s+/).map(parseFloat)
OffsetOf(line) ==
    LET parts == Split(line)
        P(i) == IF i < Len(parts) THEN parseFloat(parts[i + 1]) ELSE Undefined
    IN  Vec3(P(1), P(2), P(3))

RECURSIVE parseJoint(_, _), parseJointLoop(_, _, _)

\* the while loop of parseJoint for the joint `id`
parseJointLoop(h, st, id) ==
    IF st.err # "" THEN st
    ELSE IF ~(st.index < Len(h)) THEN [st EXCEPT !.ret = id]
    ELSE LET line == h[st.index + 1]
         IN  IF StartsWith(line, <<"OFFSET">>)
             THEN parseJointLoop(h,
                      [st EXCEPT !.js[id].offset = OffsetOf(line),
                                 !.index = @ + 1], id)
             ELSE IF StartsWith(line, <<"CHANNELS">>)
             THEN LET chs == SubSeq(Split(line), 3, Len(Split(line)))
                  IN  parseJointLoop(h,
                          [st EXCEPT !.js[id].channels = chs,
                                     !.js[id].channel_order = ChannelOrder(chs),
                                     !.index = @ + 1], id)
             ELSE IF StartsWith(line, <<"JOINT">>) \/ StartsWith(line, <<"End", "Site">>)
             THEN LET r == parseJoint(h, st)
                  IN  IF r.err # "" THEN r
                      ELSE parseJointLoop(h,
                               [r EXCEPT !.js = addChild(r.js, id, r.ret)], id)
             ELSE IF line = <<"}">>
             THEN [st EXCEPT !.index = @ + 1, !.ret = id]
             ELSE parseJointLoop(h, [st EXCEPT !.index = @ + 1], id)

\* parseJoint: one declaration line, the block open, then the loop
parseJoint(h, st) ==
    IF ~(st.index < Len(h))
    THEN [st EXCEPT !.err = "TypeError", !.index = @ + 1]
    ELSE LET line == h[st.index + 1]
             id == Len(st.js) + 1
             s1 == [st EXCEPT !.index = @ + 2,
                              !.js = Append(@, NewJoint(JointName(line))),
                              !.decls = @ \cup {st.index}]
         IN  IF ~IsBlockOpen(h, st.index + 1)
             THEN [s1 EXCEPT !.err = "Expected {"]
             ELSE parseJointLoop(h, s1, id)

parseHierarchy(hierarchy) == parseJoint(hierarchy, ParseState0)

---------------------------------------------------------------------------
(* Parser: parseMotion, parseBVH *)

\* one frame row: every token of the line through parseFloat
FrameRow(line) ==
    LET toks == Split(Trim(line)) IN Array([i \in 1..Len(toks) |-> parseFloat(toks[i])])

NoMotion == [err |-> "", frame_count |-> NaN, frame_time |-> NaN, frames |-> <<>>]

parseMotion(motion) ==
    IF Len(motion) < 3 THEN [NoMotion EXCEPT !.err = "TypeError"]
    ELSE [ err         |-> "",
           frame_count |-> parseInt(Split(Trim(motion[2])), 1),
           frame_time  |-> parseFloatAt(Split(Trim(motion[3])), 2),
           frames      |-> Array([i \in 1..(Len(motion) - 3) |-> FrameRow(motion[i + 3])]) ]

\* lines.findIndex((line) => line === "MOTION"), 0-based, -1 when none
RECURSIVE FindMotion(_, _)
FindMotion(lines, i) ==
    IF i >= Len(lines) THEN -1
    ELSE IF lines[i + 1] = <<"MOTION">> THEN i ELSE FindMotion(lines, i + 1)

\* bvhText.split(/\r?\n/).map(trim).filter(non-empty)
LinesOf(bvhText) ==
    SelectSeq(Array([i \in 1..Len(bvhText) |-> Trim(bvhText[i])]), LAMBDA l : Len(l) > 0)

\* a faulty variant of HasHierarchyKeyword: the keyword is searched for the
\* way "MOTION" is, and may stand on any line
HierarchyAnywhere(lines) == \E i \in 1..Len(lines) : lines[i] = <<"HIERARCHY">>

\* the first check of parseBVH: lines[0] !== "HIERARCHY"
HasHierarchyKeyword(lines) == Len(lines) > 0 /\ lines[1] = <<"HIERARCHY">>

NoClip == [err |-> "not run", js |-> <<>>, motion |-> NoMotion, decls |-> {},
           hierarchy |-> <<>>, index |-> 0]

\* the end of parseBVH: r is what parseHierarchy(hierarchy) gave, m what
\* parseMotion(motion) gave
ParsedClip(hierarchy, r, m) ==
    IF r.err # ""
    THEN [NoClip EXCEPT !.err = r.err, !.decls = r.decls,
                        !.hierarchy = hierarchy, !.index = r.index]
    ELSE [ err       |-> m.err,
           js        |-> IF m.err = "" THEN r.js ELSE <<>>,
           motion    |-> m,
           decls     |-> r.decls,
           hierarchy |-> hierarchy,
           index     |-> r.index ]

\* parseBVH: err = "" and [root, motionData] = [joint 1 of js, motion], or
\* the error thrown
parseBVH(bvhText) ==
    LET lines == LinesOf(bvhText)
        motion_idx == FindMotion(lines, 0)
    IN  IF ~HasHierarchyKeyword(lines)
        THEN [NoClip EXCEPT !.err = "Missing HIERARCHY"]
        ELSE IF motion_idx = -1
        THEN [NoClip EXCEPT !.err = "Missing MOTION"]
        ELSE ParsedClip(SubSeq(lines, 1, motion_idx),
                        parseHierarchy(SubSeq(lines, 1, motion_idx)),
                        parseMotion(SubSeq(lines, motion_idx + 1, Len(lines))))

---------------------------------------------------------------------------
(* Animator: the pose evaluator *)

\* joint.quaternion.setFromEuler(new THREE.Euler(x, y, z, order)) on an
\* identity quaternion: the quaternion is kept as the Euler angles (radians,
\* in units of pi) it is built from; an order three.js does not know leaves
\* the quaternion as it is.
QuatFromEuler(x, y, z, order) ==
    IF order \in EulerOrders
    THEN [kind |-> "euler", x |-> x, y |-> y, z |-> z, order |-> order]
    ELSE QIdentity

\* the rotation channel an axis letter of channel_order stands for
RotationChannel(axis) ==
    CASE axis = "X" -> "Xrotation"
      [] axis = "Y" -> "Yrotation"
      [] axis = "Z" -> "Zrotation"
      [] OTHER -> "none"

\* this.frames[this.frame][state.idx++]: the value read, or a TypeError when
\* this.frames[this.frame] is undefined.  The read is logged in u.reads.
ReadColumn(an, u, id, channel) ==
    IF ~(an.frame >= 0 /\ an.frame < Len(an.frames))
    THEN [val |-> Undefined, u |-> [u EXCEPT !.err = "TypeError"]]
    ELSE [ val |-> At(an.frames[an.frame + 1], u.idx),
           u   |-> [u EXCEPT !.idx = @ + 1,
                             !.reads = Append(@, [joint |-> id, channel |-> channel,
                                                  col |-> u.idx])] ]

\* the root-position loop of transformJoint, from channel k on
RECURSIVE ReadRootPosition(_, _, _, _)
ReadRootPosition(an, u, id, k) ==
    IF u.err # "" \/ k > Len(u.js[id].channels) THEN u
    ELSE LET channel == u.js[id].channels[k]
         IN  IF channel \in {"Xposition", "Yposition", "Zposition"}
             THEN LET r == ReadColumn(an, u, id, channel)
                      v == r.val
                      u1 == IF r.u.err # "" THEN r.u
                            ELSE CASE channel = "Xposition" ->
                                        [r.u EXCEPT !.js[id].position.x = v]
                                   [] channel = "Yposition" ->
                                        [r.u EXCEPT !.js[id].position.y = v]
                                   [] channel = "Zposition" ->
                                        [r.u EXCEPT !.js[id].position.z = v]
                  IN  ReadRootPosition(an, u1, id, k + 1)
             ELSE ReadRootPosition(an, u, id, k + 1)

\* the rotation loop of transformJoint over channel_order, from character k
\* on; rot is the local `rotation`
RECURSIVE ReadRotation(_, _, _, _, _)
ReadRotation(an, u, id, k, rot) ==
    IF u.err # "" \/ k > Len(u.js[id].channel_order) THEN [u |-> u, rot |-> rot]
    ELSE LET axis == u.js[id].channel_order[k]
         IN  IF axis \in {"X", "Y", "Z"}
             THEN LET r == ReadColumn(an, u, id, RotationChannel(axis))
                      rot1 == CASE axis = "X" -> [rot EXCEPT !.x = r.val]
                                [] axis = "Y" -> [rot EXCEPT !.y = r.val]
                                [] axis = "Z" -> [rot EXCEPT !.z = r.val]
                  IN  ReadRotation(an, r.u, id, k + 1, rot1)
             ELSE ReadRotation(an, u, id, k + 1, rot)

RECURSIVE transformJoint(_, _, _, _), transformChildren(_, _, _, _)

\* Animator.transformJoint(joint, state, isRoot); u holds state.idx, the
\* heap and the reads so far
transformJoint(an, u, id, isRoot) ==
    LET u1 == IF isRoot THEN ReadRootPosition(an, u, id, 1) ELSE u
        r == ReadRotation(an, u1, id, 1, Vec3(I(0), I(0), I(0)))
        order == r.u.js[id].channel_order
        q == IF Len(order) > 0
             THEN QuatFromEuler(rad(r.rot.x), rad(r.rot.y), rad(r.rot.z), order)
             ELSE QIdentity
        u2 == [r.u EXCEPT !.js[id].quaternion = q]
    IN  IF u1.err # "" THEN u1
        ELSE IF r.u.err # "" THEN r.u
        ELSE transformChildren(an, u2, id, 1)

\* joint.children.forEach((child) => this.transformJoint(child, state, false))
transformChildren(an, u, id, k) ==
    IF u.err # "" \/ k > Len(u.js[id].children) THEN u
    ELSE transformChildren(an, transformJoint(an, u, u.js[id].children[k], FALSE),
                           id, k + 1)

\* a faulty variant of update: the root's position is the same object as
\* its offset (no clone), so posing the root moves its offset
updateSharingOffset(an, js) ==
    LET u == transformJoint(an, [idx |-> 0, js |-> js, reads |-> <<>>, err |-> ""], 1, TRUE)
    IN  IF u.err # "" THEN u ELSE [u EXCEPT !.js[1].offset = u.js[1].position]

\* Animator.update(): transformJoint(this.root, { idx: 0 }, true)
update(an, js) ==
    transformJoint(an, [idx |-> 0, js |-> js, reads |-> <<>>, err |-> ""], 1, TRUE)

\* new Animator(root, motionData); timerPeriod is the period handed to
\* setInterval, frame_time * 1000
NewAnimator(md, split) ==
    [ frame_count |-> md.total_frames,
      frame_time  |-> md.frame_time,
      timerPeriod |-> JsMul(md.frame_time, I(1000)),
      frames      |-> md.stitched,
      frame       |-> 0,
      isPlaying   |-> FALSE,
      splitFrame  |-> split ]

---------------------------------------------------------------------------
(* Rotations in stitch_motion *)

(* stitch_motion computes with the values of quaternions, so here a        *)
(* quaternion is kept by the rotation it stands for.  The model's clips    *)
(* hold rotations about the vertical axis only, so a quaternion is         *)
(* [t |-> "yaw", a |-> angle], the angle in units of pi and within         *)
(* (-1, 1], or [t |-> "NaN"], the quaternion whose components are NaN.     *)
(* An Euler triple outside this domain has no case below, and evaluating   *)
(* it is an error of the model.                                            *)

YawQuat(a) == [t |-> "yaw", a |-> a]

NaNQuat == [t |-> "NaN", a |-> NaN]

\* the angle a (a number, units of pi) brought into (-1, 1]
NormAngle(a) ==
    LET k == CeilDiv(a.n - a.d, 2 * a.d) IN Rat(a.n - 2 * k * a.d, a.d)

MiddleY(order) == order[2] = "Y"

\* new THREE.Quaternion().setFromEuler(new THREE.Euler(x, y, z, order)),
\* x, y, z in radians
setFromEuler(x, y, z, order) ==
    LET nx == ToNumber(x)
        ny == ToNumber(y)
        nz == ToNumber(z)
    IN  CASE order \notin EulerOrders -> YawQuat(I(0))
          [] order \in EulerOrders /\ ~(IsNum(nx) /\ IsNum(ny) /\ IsNum(nz)) -> NaNQuat
          [] order \in EulerOrders /\ IsNum(nx) /\ IsNum(ny) /\ IsNum(nz)
               /\ nx = I(0) /\ nz = I(0) -> YawQuat(NormAngle(ny))
          [] order \in EulerOrders /\ IsNum(nx) /\ IsNum(ny) /\ IsNum(nz)
               /\ MiddleY(order) /\ Abs(nx.n) = 1 /\ nx.d = 1
               /\ Abs(nz.n) = 1 /\ nz.d = 1 -> YawQuat(NormAngle(JsSub(I(1), ny)))

\* new THREE.Euler().setFromQuaternion(q, order): the Euler angles
\* (radians) of q in the given order.  Of a NaN quaternion three.js takes
\* the gimbal branch, which sets one angle to 0.  A half turn is taken as
\* +pi.
setFromQuaternion(q, order) ==
    CASE order \notin EulerOrders -> Vec3(I(0), I(0), I(0))
      [] order \in EulerOrders /\ q.t = "NaN" ->
            (CASE order \in {<<"X", "Y", "Z">>, <<"Y", "X", "Z">>} -> Vec3(NaN, NaN, I(0))
               [] order \in {<<"Z", "X", "Y">>, <<"X", "Z", "Y">>} -> Vec3(NaN, I(0), NaN)
               [] order \in {<<"Z", "Y", "X">>, <<"Y", "Z", "X">>} -> Vec3(I(0), NaN, NaN))
      [] order \in EulerOrders /\ q.t = "yaw" ->
            IF ~MiddleY(order) \/ 2 * Abs(q.a.n) <= q.a.d
            THEN Vec3(I(0), q.a, I(0))
            ELSE IF q.a.n > 0
            THEN Vec3(I(1), JsSub(I(1), q.a), I(1))
            ELSE Vec3(I(1), JsSub(I(-1), q.a), I(1))

\* a.multiply(b) (and b.premultiply(a)): a * b
QuatMultiply(a, b) ==
    IF a.t = "NaN" \/ b.t = "NaN" THEN NaNQuat ELSE YawQuat(NormAngle(JsAdd(a.a, b.a)))

\* q.invert()
QuatInvert(q) ==
    IF q.t = "NaN" THEN NaNQuat ELSE YawQuat(NormAngle(JsSub(I(0), q.a)))

\* v.applyQuaternion(q): a NaN anywhere reaches every component
applyQuaternion(v, q) ==
    IF q.t = "NaN" \/ ~IsNum(v.x) \/ ~IsNum(v.y) \/ ~IsNum(v.z)
    THEN Vec3(NaN, NaN, NaN)
    ELSE LET cs == CASE q.a = I(0) -> <<1, 0>>
                     [] q.a = Rat(1, 2) -> <<0, 1>>
                     [] q.a = I(1) -> <<-1, 0>>
                     [] q.a = Rat(-1, 2) -> <<0, -1>>
             c == I(cs[1])
             sn == I(cs[2])
         IN  Vec3(JsAdd(JsMul(c, v.x), JsMul(sn, v.z)),
                  v.y,
                  JsSub(JsMul(c, v.z), JsMul(sn, v.x)))

\* qA.slerp(qB, t), 0 < t < 1: along the shorter arc; at an exact half turn
\* the positive direction is taken
slerp(qa, qb, t) ==
    IF qa.t = "NaN" \/ qb.t = "NaN" THEN NaNQuat
    ELSE YawQuat(NormAngle(JsAdd(qa.a, JsMul(NormAngle(JsSub(qb.a, qa.a)), t))))

---------------------------------------------------------------------------
(* stitch_motion *)

\* a[i] = v on a JavaScript array: an index past the end grows the array
\* (the elements between are holes, read as undefined); the index -1 or
\* undefined sets a property that is no element
ArraySet(a, i, v) ==
    IF i < 0 THEN a
    ELSE Array([k \in 1..(IF i + 1 > Len(a) THEN i + 1 ELSE Len(a)) |->
                   IF k = i + 1 THEN v ELSE IF k <= Len(a) THEN a[k] ELSE Undefined])

\* JSON.parse(JSON.stringify(x)) of one array element: what is not a finite
\* number comes back as null
JsonValue(v) == IF IsNum(v) THEN v ELSE Null

\* JSON.parse(JSON.stringify(f2))
JsonCopy(frames) ==
    Array([i \in 1..Len(frames) |->
              Array([k \in 1..Len(frames[i]) |-> JsonValue(frames[i][k])])])

\* a === b on numbers: NaN equals nothing
StrictEquals(a, b) == IsNum(a) /\ IsNum(b) /\ a = b

\* a faulty variant of BlendFrameCount: the quotient is rounded down
BlendFrameCountFloor(mixDuration, ft1) ==
    IF ~IsNum(ft1) THEN [inf |-> FALSE, nan |-> TRUE, n |-> 0]
    ELSE IF ft1.n = 0 THEN [inf |-> TRUE, nan |-> FALSE, n |-> 0]
    ELSE [inf |-> FALSE, nan |-> FALSE, n |-> FloorDiv(mixDuration * ft1.d, ft1.n)]

\* Math.ceil(MIX_DURATION / ft1): [inf |-> TRUE] is Infinity; the count is
\* NaN for a NaN frame time
BlendFrameCount(mixDuration, ft1) ==
    IF ~IsNum(ft1) THEN [inf |-> FALSE, nan |-> TRUE, n |-> 0]
    ELSE IF ft1.n = 0 THEN [inf |-> TRUE, nan |-> FALSE, n |-> 0]
    ELSE [inf |-> FALSE, nan |-> FALSE, n |-> CeilDiv(mixDuration * ft1.d, ft1.n)]

MIX_DURATION == 1

IsPosition(ch) == ch \in {"Xposition", "Yposition", "Zposition"}

IsRotation(ch) == ch \in {"Xrotation", "Yrotation", "Zrotation"}

\* one step of joint.channels.forEach in createBlendMap, for the channel ch;
\* b = [map, g (globalChannelIndex), rot (rotIndices), hasRot]
ScanChannel(ch, b) ==
    IF IsPosition(ch)
    THEN [b EXCEPT !.map = Append(@, [type |-> "lerp", idx |-> b.g,
                                      indices |-> <<>>, order |-> <<>>]),
                   !.g = @ + 1]
    ELSE IF IsRotation(ch)
    THEN [b EXCEPT !.hasRot = TRUE,
                   !.rot = [@ EXCEPT ![FirstChar(ch)] = b.g],
                   !.g = @ + 1]
    ELSE b

\* joint.channels.forEach over the channels lo .. hi, in order
RECURSIVE ScanChannels(_, _, _, _)
ScanChannels(channels, lo, hi, b) ==
    IF lo > hi THEN b
    ELSE IF lo = hi THEN ScanChannel(channels[lo], b)
    ELSE Then(ScanChannels(channels, lo, (lo + hi) \div 2, b),
              LAMBDA b1 : ScanChannels(channels, (lo + hi) \div 2 + 1, hi, b1))

\* a faulty variant of SlerpInstruction: no instruction is stored for the
\* joint's rotation channels
SlerpInstructionOmitted(b, order) == b

\* the slerp instruction of a joint that has a rotation channel
SlerpInstruction(b, order) ==
    IF b.hasRot
    THEN [b EXCEPT !.map = Append(@,
              [type |-> "slerp", idx |-> NoIdx,
               indices |-> <<b.rot["X"], b.rot["Y"], b.rot["Z"]>>,
               order |-> order])]
    ELSE b

RECURSIVE createBlendMap(_, _, _), createBlendMapChildren(_, _, _, _)

\* createBlendMap(joint); b carries blendMap and globalChannelIndex
createBlendMap(js, id, b) ==
    Then(ScanChannels(js[id].channels, 1, Len(js[id].channels),
                      [b EXCEPT !.rot = [a \in {"X", "Y", "Z"} |-> NoIdx],
                                !.hasRot = FALSE]),
         LAMBDA b1 : createBlendMapChildren(js, id, 1,
                         SlerpInstruction(b1, js[id].channel_order)))

\* joint.children.forEach((child) => createBlendMap(child)), from child k on
createBlendMapChildren(js, id, k, b) ==
    IF k > Len(js[id].children) THEN b
    ELSE Then(createBlendMap(js, js[id].children[k], b),
              LAMBDA b1 : createBlendMapChildren(js, id, k + 1, b1))

BlendMapOf(js) ==
    createBlendMap(js, 1, [map |-> <<>>, g |-> 0,
                           rot |-> [a \in {"X", "Y", "Z"} |-> NoIdx],
                           hasRot |-> FALSE]).map

\* the index the rootA.channels.forEach loop leaves for a channel name:
\* that of its last occurrence, -1 when there is none
RECURSIVE ChannelIndex(_, _, _)
ChannelIndex(channels, name, k) ==
    IF k = 0 THEN NoIdx
    ELSE IF channels[k] = name THEN k - 1 ELSE ChannelIndex(channels, name, k - 1)

RootIndices(channels) ==
    [ xPos |-> ChannelIndex(channels, "Xposition", Len(channels)),
      yPos |-> ChannelIndex(channels, "Yposition", Len(channels)),
      zPos |-> ChannelIndex(channels, "Zposition", Len(channels)),
      xRot |-> ChannelIndex(channels, "Xrotation", Len(channels)),
      yRot |-> ChannelIndex(channels, "Yrotation", Len(channels)),
      zRot |-> ChannelIndex(channels, "Zrotation", Len(channels)) ]

\* new THREE.Vector3(frame[xPos], frame[yPos], frame[zPos])
RootPosition(frame, ix) ==
    Vec3(At(frame, ix.xPos), At(frame, ix.yPos), At(frame, ix.zPos))

\* new THREE.Quaternion().setFromEuler(new THREE.Euler(rad(frame[iX]),
\* rad(frame[iY]), rad(frame[iZ]), order))
QuatOfFrame(frame, iX, iY, iZ, order) ==
    setFromEuler(rad(At(frame, iX)), rad(At(frame, iY)), rad(At(frame, iZ)), order)

\* frame[iX], frame[iY], frame[iZ] = the degrees of an Euler triple
SetEulerDegrees(frame, iX, iY, iZ, euler) ==
    ArraySet(ArraySet(ArraySet(frame, iX, radToDeg(euler.x)),
                      iY, radToDeg(euler.y)),
             iZ, radToDeg(euler.z))

\* the rotation about the vertical axis of a root pose: the quaternion of
\* the frame's root rotation, decomposed in order YXZ, its yaw kept
YawOf(frame, ix, order) ==
    LET full == QuatOfFrame(frame, ix.xRot, ix.yRot, ix.zRot, order)
        euler == setFromQuaternion(full, <<"Y", "X", "Z">>)
    IN  setFromEuler(I(0), euler.y, I(0), <<"Y", "X", "Z">>)

\* a faulty variant of DeltaQuat: the yaw of clip B is not inverted
DeltaQuatNotInverted(lastFrameA, firstFrameB, ix, orderA, orderB) ==
    QuatMultiply(YawOf(lastFrameA, ix, orderA), YawOf(firstFrameB, ix, orderB))

\* deltaQuat = rotA_Yaw.clone().multiply(rotB_Yaw.clone().invert())
DeltaQuat(lastFrameA, firstFrameB, ix, orderA, orderB) ==
    QuatMultiply(YawOf(lastFrameA, ix, orderA), QuatInvert(YawOf(firstFrameB, ix, orderB)))

\* offset = currentPos.clone().sub(posB_Start).applyQuaternion(deltaQuat)
RootOffset(currentPos, posB_Start, deltaQuat) ==
    applyQuaternion(Vec3(JsSub(currentPos.x, posB_Start.x),
                         JsSub(currentPos.y, posB_Start.y),
                         JsSub(currentPos.z, posB_Start.z)), deltaQuat)

\* the position part of the body of f2_aligned.forEach: X and Z moved, Y
\* written back as read
AlignPosition(frame, ix, posA_End, currentPos, offset) ==
    ArraySet(ArraySet(ArraySet(frame, ix.xPos, JsAdd(posA_End.x, offset.x)),
                      ix.zPos, JsAdd(posA_End.z, offset.z)),
             ix.yPos, currentPos.y)

\* currentRot = the frame's root rotation, premultiplied by deltaQuat
AlignedRotation(frame, ix, deltaQuat, orderB) ==
    QuatMultiply(deltaQuat, QuatOfFrame(frame, ix.xRot, ix.yRot, ix.zRot, orderB))

\* the rotation part: currentRot.premultiply(deltaQuat), written back as
\* Euler angles of the root's own order
AlignRotation(frame, ix, deltaQuat, orderB) ==
    Then(setFromQuaternion(AlignedRotation(frame, ix, deltaQuat, orderB), orderB),
         LAMBDA newEuler : SetEulerDegrees(frame, ix.xRot, ix.yRot, ix.zRot, newEuler))

\* the body of f2_aligned.forEach: one frame of clip B aligned
AlignFrame(frame, ix, posA_End, posB_Start, deltaQuat, orderB) ==
    Then(RootOffset(RootPosition(frame, ix), posB_Start, deltaQuat),
         LAMBDA offset :
             Then(AlignPosition(frame, ix, posA_End, RootPosition(frame, ix), offset),
                  LAMBDA moved : AlignRotation(moved, ix, deltaQuat, orderB)))

\* one instruction of the blend map applied to newFrame
ApplyInstruction(newFrame, ins, startFrame, endFrame, t) ==
    IF ins.type = "lerp"
    THEN LET valA == At(startFrame, ins.idx)
             valB == At(endFrame, ins.idx)
         IN  ArraySet(newFrame, ins.idx, JsAdd(valA, JsMul(JsSub(valB, valA), t)))
    ELSE Then(setFromQuaternion(
                  slerp(QuatOfFrame(startFrame, ins.indices[1], ins.indices[2],
                                    ins.indices[3], ins.order),
                        QuatOfFrame(endFrame, ins.indices[1], ins.indices[2],
                                    ins.indices[3], ins.order),
                        t),
                  ins.order),
              LAMBDA resultEuler :
                  SetEulerDegrees(newFrame, ins.indices[1], ins.indices[2],
                                  ins.indices[3], resultEuler))

\* blendMap.forEach over the instructions lo .. hi, in order
RECURSIVE ApplyBlendMap(_, _, _, _, _, _, _)
ApplyBlendMap(newFrame, blendMap, lo, hi, startFrame, endFrame, t) ==
    IF lo > hi THEN newFrame
    ELSE IF lo = hi
    THEN ApplyInstruction(newFrame, blendMap[lo], startFrame, endFrame, t)
    ELSE Then(ApplyBlendMap(newFrame, blendMap, lo, (lo + hi) \div 2,
                            startFrame, endFrame, t),
              LAMBDA frame : ApplyBlendMap(frame, blendMap, (lo + hi) \div 2 + 1, hi,
                                           startFrame, endFrame, t))

\* a faulty variant of BlendFrame: t = i / n, so the last blend frame is at
\* t = 1
BlendFrameToEnd(i, n, blendMap, startFrame, endFrame) ==
    ApplyBlendMap(Array([k \in 1..Len(startFrame) |-> I(0)]), blendMap,
                  1, Len(blendMap), startFrame, endFrame, Rat(i, n))

\* blend frame i of n: t = i / (n + 1)
BlendFrame(i, n, blendMap, startFrame, endFrame) ==
    ApplyBlendMap(Array([k \in 1..Len(startFrame) |-> I(0)]), blendMap,
                  1, Len(blendMap), startFrame, endFrame, Rat(i, n + 1))

NoStitch ==
    [ err |-> "not run", total_frames |-> 0, frame_time |-> NaN, stitched |-> <<>>,
      blendFrames |-> <<>>, f2_aligned |-> <<>>, blendMap |-> <<>> ]

\* the alignment of clip B: f2_aligned = JSON.parse(JSON.stringify(f2)),
\* then every frame aligned
AlignClip(f1, f2, ix, orderA, orderB) ==
    Array([i \in 1..Len(f2) |->
              AlignFrame(JsonCopy(f2)[i], ix,
                         RootPosition(f1[Len(f1)], ix), RootPosition(f2[1], ix),
                         DeltaQuat(f1[Len(f1)], f2[1], ix, orderA, orderB),
                         orderB)])

\* the blend loop: for (let i = 1; i <= BLEND_FRAMES; i++)
BlendFrames(count, blendMap, startFrame, endFrame) ==
    Array([i \in 1..(IF count.nan \/ count.n < 0 THEN 0 ELSE count.n) |->
              BlendFrame(i, count.n, blendMap, startFrame, endFrame)])

\* a faulty variant of StitchResult: the frame count is taken from the
\* clips' "Frames:" headers instead of the rows of the stitched matrix
StitchResultByHeader(mA, mB, blendMap, f2_aligned, blendFrames) ==
    [ blendMap     |-> blendMap,
      f2_aligned   |-> f2_aligned,
      blendFrames  |-> blendFrames,
      stitched     |-> mA.frames \o blendFrames \o f2_aligned,
      total_frames |-> (IF IsNum(mA.frame_count) THEN mA.frame_count.n ELSE 0)
                       + Len(blendFrames)
                       + (IF IsNum(mB.frame_count) THEN mB.frame_count.n ELSE 0),
      frame_time   |-> IF StrictEquals(mA.frame_time, mB.frame_time)
                       THEN mA.frame_time ELSE I(-1),
      err          |-> "" ]

\* a faulty variant of StitchResult: clips of different frame times get the
\* frame time of clip B
StitchResultRateOfB(mA, mB, blendMap, f2_aligned, blendFrames) ==
    [ blendMap     |-> blendMap,
      f2_aligned   |-> f2_aligned,
      blendFrames  |-> blendFrames,
      stitched     |-> mA.frames \o blendFrames \o f2_aligned,
      total_frames |-> Len(mA.frames \o blendFrames \o f2_aligned),
      frame_time   |-> IF StrictEquals(mA.frame_time, mB.frame_time)
                       THEN mA.frame_time ELSE mB.frame_time,
      err          |-> "" ]

\* [total_frames, frame_time, stitched_frames], with the parts it is made of
StitchResult(mA, mB, blendMap, f2_aligned, blendFrames) ==
    [ blendMap     |-> blendMap,
      f2_aligned   |-> f2_aligned,
      blendFrames  |-> blendFrames,
      stitched     |-> mA.frames \o blendFrames \o f2_aligned,
      total_frames |-> Len(mA.frames \o blendFrames \o f2_aligned),
      frame_time   |-> IF StrictEquals(mA.frame_time, mB.frame_time)
                       THEN mA.frame_time ELSE I(-1),
      err          |-> "" ]

\* stitch_motion from the blend loop on
StitchAligned(mA, mB, count, blendMap, f2_aligned) ==
    StitchResult(mA, mB, blendMap, f2_aligned,
                 BlendFrames(count, blendMap, mA.frames[Len(mA.frames)], f2_aligned[1]))

\* stitch_motion(rootA, motionDataA, rootB, motionDataB): jsA and jsB are
\* the heaps of the two trees.  err = "" and the triple returned, or
\* err = "TypeError" (a clip without frames), or err = "never returns" (the
\* blend loop has no last iteration).
stitch_motion(jsA, mA, jsB, mB) ==
    IF Len(mA.frames) = 0 \/ Len(mB.frames) = 0
    THEN [NoStitch EXCEPT !.err = "TypeError"]
    ELSE IF BlendFrameCount(MIX_DURATION, mA.frame_time).inf
    THEN [NoStitch EXCEPT !.err = "never returns"]
    ELSE StitchAligned(mA, mB, BlendFrameCount(MIX_DURATION, mA.frame_time),
                       BlendMapOf(jsA),
                       AlignClip(mA.frames, mB.frames, RootIndices(jsA[1].channels),
                                 jsA[1].channel_order, jsB[1].channel_order))

---------------------------------------------------------------------------
(* The page: init() and the handlers that use the animator *)

NoUpdate == [ran |-> FALSE, frame |-> 0, err |-> "", idx |-> 0, reads |-> <<>>]

\* most init() runs a behaviour has in flight or ended with an Animator
MaxRuns == 3

\* no GUI handler has run yet
NoHandler == [name |-> "none", err |-> ""]

\* the handler's first statement reads a property of animator, which is null
NullAnimator == "TypeError: animator is null"

\* a faulty variant of clearTimer: the interval is left running
clearTimerSkipped(tm) == tm

\* if (animator) animator.clearTimer(): timers[i] tells whether the interval
\* of the i-th Animator constructed is live, and the global animator is the
\* last one constructed
clearTimer(tm) ==
    IF Len(tm) > 0 THEN [tm EXCEPT ![Len(tm)] = FALSE] ELSE tm

\* the end of init(): the previous animator's timer is cleared, then
\* new Animator(root, motionData) starts its own
InitAnimator(a, b, md) ==
    /\ clipA' = a
    /\ clipB' = b
    /\ motionData' = md
    /\ IF md.err = ""
       THEN /\ animator' = <<NewAnimator(md, a.motion.frame_count)>>
            /\ joints' = a.js
            /\ timers' = Append(clearTimer(timers), TRUE)
       ELSE UNCHANGED <<animator, joints, timers>>

\* init() once both texts are parsed: motionData = stitch_motion(...)
InitStitchMotion(a, b) ==
    InitAnimator(a, b, IF a.err = "" /\ b.err = ""
                       THEN stitch_motion(a.js, a.motion, b.js, b.motion)
                       ELSE NoStitch)

\* init() once the first text is parsed: [r2, m2] = parseBVH(bvhText_2)
InitParseSecond(a) ==
    InitStitchMotion(a, IF a.err = "" THEN parseBVH(bvhText_2) ELSE NoClip)

\* how the run of init() that main awaits has ended, given how its
\* stitch_motion ended
MainOutcome(err) ==
    IF err = "" THEN "done" ELSE IF err = "never returns" THEN "hung" ELSE "failed"

\* the init() that main awaits, from the point where both fetches have
\* resolved: it runs to its end without a further await.  A throw rejects
\* init() and leaves the animator as it was; a blend loop that never ends
\* leaves the page hung.
InitComplete ==
    /\ initState = "pending"
    /\ InitParseSecond(parseBVH(bvhText_1))
    /\ initState' = MainOutcome(motionData'.err)
    /\ UNCHANGED <<bvhText_1, bvhText_2, lastUpdate, playButton, uploads, handler>>

\* the init() that main awaits is rejected by a fetch that fails; main
\* never reaches animate()
InitRejected ==
    /\ initState = "pending"
    /\ initState' = "failed"
    /\ UNCHANGED <<bvhText_1, bvhText_2, clipA, clipB, motionData, animator, joints,
                   lastUpdate, playButton, timers, uploads, handler>>

\* the upload handler: reader.onload sets the play button's text and calls
\* init(), which runs up to its first await.  The text read from the file is
\* stored in a global that init() never reads.
Upload ==
    /\ initState # "hung"
    /\ Len(timers) + uploads + (IF initState = "pending" THEN 1 ELSE 0) < MaxRuns
    /\ playButton' = "Play"
    /\ uploads' = uploads + 1
    /\ UNCHANGED <<bvhText_1, bvhText_2, initState, clipA, clipB, motionData, animator,
                   joints, lastUpdate, timers, handler>>

\* an init() started by an upload, from the point where both fetches have
\* resolved
UploadInitComplete ==
    /\ initState # "hung"
    /\ uploads > 0
    /\ InitParseSecond(parseBVH(bvhText_1))
    /\ initState' = IF motionData'.err = "never returns" THEN "hung" ELSE initState
    /\ uploads' = uploads - 1
    /\ UNCHANGED <<bvhText_1, bvhText_2, lastUpdate, playButton, handler>>

\* an init() started by an upload is rejected by a fetch that fails
UploadInitRejected ==
    /\ initState # "hung"
    /\ uploads > 0
    /\ uploads' = uploads - 1
    /\ UNCHANGED <<bvhText_1, bvhText_2, initState, clipA, clipB, motionData, animator,
                   joints, lastUpdate, playButton, timers, handler>>

\* animate(): if (animator) animator.update().  main starts the loop once
\* init() has completed.
Animate ==
    /\ initState = "done"
    /\ animator # <<>>
    /\ LET an == animator[1]
           u == update(an, joints)
       IN  /\ joints' = u.js
           /\ lastUpdate' = [ran |-> TRUE, frame |-> an.frame, err |-> u.err,
                             idx |-> u.idx, reads |-> u.reads]
    /\ UNCHANGED <<bvhText_1, bvhText_2, initState, clipA, clipB, motionData, animator,
                   playButton, timers, uploads, handler>>

\* the play button's click handler; gui() registers it before init() runs
PlayClick ==
    /\ initState # "hung"
    /\ IF animator = <<>>
       THEN /\ handler' = [name |-> "play", err |-> NullAnimator]
            /\ UNCHANGED <<animator, playButton>>
       ELSE /\ animator' = <<[animator[1] EXCEPT !.isPlaying = ~@]>>
            /\ playButton' = IF animator'[1].isPlaying THEN "Pause" ELSE "Play"
            /\ handler' = [name |-> "play", err |-> ""]
    /\ UNCHANGED <<bvhText_1, bvhText_2, initState, clipA, clipB, motionData, joints,
                   lastUpdate, timers, uploads>>

\* a % b of JavaScript
JsMod(a, b) ==
    LET x == ToNumber(a)
        y == ToNumber(b)
    IN  IF ~(IsNum(x) /\ IsNum(y)) THEN NaN
        ELSE IF y.n = 0 THEN NaN
        ELSE LET p == x.n * y.d
                 q == Abs(y.n * x.d)
             IN  Rat((IF p < 0 THEN -1 ELSE 1) * (Abs(p) % q), x.d * y.d)

\* the interval callback's new frame: (this.frame + 1) % this.frame_count
TimerCallback(frame, frame_count) == JsMod(JsAdd(frame, I(1)), frame_count)

\* the index of a row of this.frames that a frame number stands for; NoIdx
\* for a number that is the index of no row
FrameIndex(v) == IF IsNum(v) /\ v.d = 1 /\ v.n >= 0 THEN v.n ELSE NoIdx

\* an interval timer fires.  The callback of a replaced Animator's timer,
\* were one left live, acts on an object nothing else refers to.
TimerTick ==
    /\ initState # "hung"
    /\ \E i \in 1..Len(timers) :
          /\ timers[i]
          /\ IF i = Len(timers) /\ animator # <<>> /\ animator[1].isPlaying
             THEN animator' = <<[animator[1] EXCEPT
                      !.frame = FrameIndex(TimerCallback(I(@), I(animator[1].frame_count)))]>>
             ELSE UNCHANGED animator
    /\ UNCHANGED <<bvhText_1, bvhText_2, initState, clipA, clipB, motionData, joints,
                   lastUpdate, playButton, timers, uploads, handler>>

\* the slider's input handler: the slider's range is 0 .. slider.max, which
\* init() sets to frame_count - 1
SliderInput(targetFrame) ==
    /\ initState # "hung"
    /\ IF animator = <<>>
       THEN /\ handler' = [name |-> "slider", err |-> NullAnimator]
            /\ UNCHANGED <<animator, joints, lastUpdate, playButton>>
       ELSE /\ targetFrame \in 0..(animator[1].frame_count - 1)
            /\ LET an == [animator[1] EXCEPT !.frame = targetFrame]
                   u == update(an, joints)
               IN  /\ joints' = u.js
                   /\ lastUpdate' = [ran |-> TRUE, frame |-> an.frame, err |-> u.err,
                                     idx |-> u.idx, reads |-> u.reads]
                   /\ animator' = <<[an EXCEPT !.isPlaying = IF u.err = "" THEN FALSE ELSE @]>>
                   /\ playButton' = IF u.err = "" THEN "Play" ELSE playButton
                   /\ handler' = [name |-> "slider", err |-> u.err]
    /\ UNCHANGED <<bvhText_1, bvhText_2, initState, clipA, clipB, motionData,
                   timers, uploads>>

\* the values the slider hands to its handler once init() has set its range
SliderRange == IF animator = <<>> THEN {} ELSE 0..(animator[1].frame_count - 1)

\* the values the slider hands to its handler: before init() has set the
\* range the handler throws whatever the value, and one value stands for all
SliderValues == IF animator = <<>> THEN {1} ELSE SliderRange

\* the page with the clips stitched and the slider scrubbed
Next ==
    \/ InitComplete
    \/ Animate
    \/ \E targetFrame \in SliderRange : SliderInput(targetFrame)

\* the page with its timers, its buttons and its uploads
NextPage ==
    \/ InitComplete
    \/ InitRejected
    \/ Upload
    \/ UploadInitComplete
    \/ UploadInitRejected
    \/ Animate
    \/ PlayClick
    \/ TimerTick
    \/ \E targetFrame \in SliderValues : SliderInput(targetFrame)

---------------------------------------------------------------------------
(* The page of the single-clip variant (src/unnamed/part_000): init() is   *)
(* synchronous and builds the Animator from the parsed clip; main runs     *)
(* init(), gui(), animate() in this order, so a throw of init() leaves the *)
(* page without handlers.  bvhText_1 holds the text init() parses,         *)
(* bvhText === null ? bvhText_default : bvhText.                           *)

\* new Animator(root, motionData) on a parsed clip: frame_count is the
\* number of the "Frames:" line.  frame and frame_count are kept as
\* JavaScript values.
ParsedAnimator(m) ==
    [ frame_count |-> m.frame_count,
      frame_time  |-> m.frame_time,
      timerPeriod |-> JsMul(m.frame_time, I(1000)),
      frames      |-> m.frames,
      frame       |-> I(0),
      isPlaying   |-> FALSE ]

\* init() of the variant on the clip a = parseBVH(text)
InitParsed(a) ==
    /\ clipA' = a
    /\ IF a.err = ""
       THEN /\ animator' = <<ParsedAnimator(a.motion)>>
            /\ joints' = a.js
            /\ timers' = Append(clearTimer(timers), TRUE)
       ELSE UNCHANGED <<animator, joints, timers>>

\* main's init()
ParsedInit ==
    /\ initState = "pending"
    /\ InitParsed(parseBVH(bvhText_1))
    /\ initState' = IF clipA'.err = "" THEN "done" ELSE "failed"
    /\ UNCHANGED <<bvhText_1, bvhText_2, clipB, motionData, lastUpdate, playButton,
                   uploads, handler>>

\* the upload handler of the variant: reader.onload stores the text, sets
\* the play button's text and runs init() to its end
ParsedUpload(text) ==
    /\ initState = "done"
    /\ Len(timers) < MaxRuns
    /\ bvhText_1' = text
    /\ playButton' = "Play"
    /\ InitParsed(parseBVH(text))
    /\ handler' = [name |-> "upload", err |-> clipA'.err]
    /\ UNCHANGED <<bvhText_2, initState, clipB, motionData, lastUpdate, uploads>>

\* the play button's click handler, registered once init() has returned
ParsedPlayClick ==
    /\ initState = "done"
    /\ PlayClick

\* an interval timer of the variant fires
ParsedTimerTick ==
    /\ initState = "done"
    /\ \E i \in 1..Len(timers) :
          /\ timers[i]
          /\ IF i = Len(timers) /\ animator[1].isPlaying
             THEN animator' = <<[animator[1] EXCEPT
                      !.frame = TimerCallback(@, animator[1].frame_count)]>>
             ELSE UNCHANGED animator
    /\ UNCHANGED <<bvhText_1, bvhText_2, initState, clipA, clipB, motionData, joints,
                   lastUpdate, playButton, timers, uploads, handler>>

\* animate() of the variant: animator.update()
ParsedAnimate ==
    /\ initState = "done"
    /\ LET an == animator[1]
           row == FrameIndex(an.frame)
           u == update([frame |-> row, frames |-> an.frames], joints)
       IN  /\ joints' = u.js
           /\ lastUpdate' = [ran |-> TRUE, frame |-> row, err |-> u.err,
                             idx |-> u.idx, reads |-> u.reads]
    /\ UNCHANGED <<bvhText_1, bvhText_2, initState, clipA, clipB, motionData, animator,
                   playButton, timers, uploads, handler>>

---------------------------------------------------------------------------
(* Input texts *)

\* most joints below the root in a generated skeleton
MaxKids == 2

\* root X and Z positions of generated frames range over 0 .. MaxCoord
MaxCoord == 1

\* the numeral of an integer
Numeral(n) == (CHOOSE e \in Numerals : e[2] = n /\ e[3] = 1)[1]

RootKinds == {"PR", "RP", "P", "R", "none"}

KidKinds == {"R", "PR", "End"}

\* the channel names a kind of joint declares
ChannelsOfKind(kind) ==
    CASE kind = "PR" -> <<"Xposition", "Yposition", "Zposition",
                          "Zrotation", "Xrotation", "Yrotation">>
      [] kind = "RP" -> <<"Zrotation", "Xrotation", "Yrotation",
                          "Xposition", "Yposition", "Zposition">>
      [] kind = "P" -> <<"Xposition", "Yposition", "Zposition">>
      [] kind = "R" -> <<"Zrotation", "Xrotation", "Yrotation">>
      [] OTHER -> <<>>

\* the lines that open a joint's block; the lines of a block are indented
OpenBlock(decl, kind, offsetY) ==
    <<decl, <<WS, "{">>, <<WS, "OFFSET", "0", offsetY, "0">>>>
    \o (IF ChannelsOfKind(kind) = <<>> THEN <<>>
        ELSE << <<WS, "CHANNELS", Numeral(Len(ChannelsOfKind(kind)))>>
                \o ChannelsOfKind(kind) >>)

KidDecl(kind) == IF kind = "End" THEN <<WS, "End", "Site">> ELSE <<WS, "JOINT", "Spine">>

RECURSIVE KidsText(_, _)
KidsText(kids, flat) ==
    IF kids = <<>> THEN <<>>
    ELSE IF flat
    THEN OpenBlock(KidDecl(kids[1]), kids[1], "2") \o << <<WS, "}">> >>
         \o KidsText(Tail(kids), flat)
    ELSE OpenBlock(KidDecl(kids[1]), kids[1], "2") \o KidsText(Tail(kids), flat)
         \o << <<WS, "}">> >>

HierarchyText(sk) ==
    << <<"HIERARCHY">> >> \o OpenBlock(<<"ROOT", "Hip">>, sk.root, "0")
    \o KidsText(sk.kids, sk.flat) \o << <<"}">> >>

\* one frame row for the pose p = [x, y, z, yaw, kyaw]: the root at
\* (x, y, z) turned by yaw about the vertical axis, every other joint at
\* (3, 4, 5) turned by kyaw
RootToken(ch, p) ==
    CASE ch = "Xposition" -> Numeral(p.x)
      [] ch = "Yposition" -> Numeral(p.y)
      [] ch = "Zposition" -> Numeral(p.z)
      [] ch = "Yrotation" -> Numeral(p.yaw)
      [] OTHER -> "0"

KidToken(ch, p) ==
    CASE ch = "Xposition" -> "3"
      [] ch = "Yposition" -> "4"
      [] ch = "Zposition" -> "5"
      [] ch = "Yrotation" -> Numeral(p.kyaw)
      [] OTHER -> "0"

RECURSIVE KidsRow(_, _)
KidsRow(kids, p) ==
    IF kids = <<>> THEN <<>>
    ELSE Array([i \in 1..Len(ChannelsOfKind(kids[1])) |->
                   KidToken(ChannelsOfKind(kids[1])[i], p)])
         \o KidsRow(Tail(kids), p)

RowText(sk, p) ==
    [i \in 1..Len(ChannelsOfKind(sk.root)) |-> RootToken(ChannelsOfKind(sk.root)[i], p)]
    \o KidsRow(sk.kids, p)

\* a defect of one row: "short" drops its last n tokens, "nan" puts a word
\* in place of its token at (0-based) column n
Defective(row, d) ==
    CASE d.kind = "short" -> SubSeq(row, 1, IF Len(row) > d.n THEN Len(row) - d.n ELSE 0)
      [] d.kind = "nan" -> Array([i \in 1..Len(row) |-> IF i = d.n + 1 THEN "abc" ELSE row[i]])
      [] OTHER -> row

NoDefect == [kind |-> "none", row |-> 0, n |-> 0]

\* the text of a clip c = [sk, fc, ft, poses, defect]: fc and ft are the
\* tokens of the "Frames:" and "Frame Time:" lines
BVHText(c) ==
    HierarchyText(c.sk)
    \o << <<"MOTION">>, <<"Frames:", c.fc>>, <<"Frame", "Time:", c.ft>> >>
    \o Array([i \in 1..Len(c.poses) |->
                 IF c.defect.row = i THEN Defective(RowText(c.sk, c.poses[i]), c.defect)
                 ELSE RowText(c.sk, c.poses[i])])

Skeletons ==
    { [root |-> r, kids |-> k, flat |-> f] :
        r \in RootKinds,
        k \in UNION { [1..n -> KidKinds] : n \in 0..MaxKids },
        f \in BOOLEAN }

\* a pose with the root at the height y
PoseAt(x, y, z, yaw, kyaw) == [x |-> x, y |-> y, z |-> z, yaw |-> yaw, kyaw |-> kyaw]

\* a pose with the root at the height 2
Pose(x, z, yaw, kyaw) == PoseAt(x, 2, z, yaw, kyaw)

\* the columns a skeleton's frames have
Width(sk) == Len(RowText(sk, Pose(0, 0, 0, 0)))

\* a plain clip of two frames
PlainClip(sk) ==
    [sk |-> sk, fc |-> "2", ft |-> "0.5",
     poses |-> <<Pose(0, 0, 0, 0), Pose(1, 0, 90, 90)>>, defect |-> NoDefect]

Pending ==
    /\ initState = "pending"
    /\ clipA = NoClip
    /\ clipB = NoClip
    /\ motionData = NoStitch
    /\ animator = <<>>
    /\ joints = <<>>
    /\ lastUpdate = NoUpdate
    /\ playButton = "Play"
    /\ timers = <<>>
    /\ uploads = 0
    /\ handler = NoHandler

---------------------------------------------------------------------------
(* Specification Spec: the evaluator over every generated skeleton *)

\* Clip A over every skeleton, whole or with a row cut short; clip B plain.
Init ==
    /\ \E sk \in Skeletons, d \in {NoDefect} \cup
             { [kind |-> "short", row |-> r, n |-> n] : r \in 1..2, n \in 1..2 } :
          /\ (sk.flat => Len(sk.kids) >= 2)
          /\ bvhText_1 = BVHText([PlainClip(sk) EXCEPT !.defect = d])
          /\ bvhText_2 = BVHText(PlainClip(sk))
    /\ Pending

Spec == Init /\ [][Next]_vars

---------------------------------------------------------------------------
(* Specification SpecParse: the parser over damaged texts *)

\* Hip - Spine - End Site, two frames of zeros
ParseBase ==
    LET sk == [root |-> "PR", kids |-> <<"R", "End">>, flat |-> FALSE]
    IN  HierarchyText(sk)
        \o << <<"MOTION">>, <<"Frames:", "2">>, <<"Frame", "Time:", "0.5">> >>
        \o << Array([i \in 1..Width(sk) |-> "0"]), Array([i \in 1..Width(sk) |-> "0"]) >>

\* the lines a damaged text gets in place of, or beside, its own
DamageLines ==
    { <<"{">>, <<"}">>, <<>>, <<WS>>,
      <<"MOTION">>, <<WS, "MOTION", WS>>, <<"MOTION", "x">>,
      <<"HIERARCHY">>, <<"HIERARCHY", "x">>,
      <<"JOINT", "Arm">>, <<"End", "Site">>,
      <<"Frames:", "abc">>, <<"Frames:">>,
      <<"Frame", "Time:", "abc">>, <<"Frame", "Time:">> }

DeleteLine(text, i) == SubSeq(text, 1, i - 1) \o SubSeq(text, i + 1, Len(text))

ReplaceLine(text, i, l) == [text EXCEPT ![i] = l]

InsertLine(text, i, l) == SubSeq(text, 1, i - 1) \o <<l>> \o SubSeq(text, i, Len(text))

\* a text, and every text one line away from it
Damaged(text) ==
    {text}
    \cup { DeleteLine(text, i) : i \in 1..Len(text) }
    \cup { ReplaceLine(text, i, l) : i \in 1..Len(text), l \in DamageLines }
    \cup { InsertLine(text, i, l) : i \in 1..(Len(text) + 1), l \in DamageLines }

InitParse ==
    /\ bvhText_1 \in Damaged(ParseBase)
    /\ bvhText_2 = ParseBase
    /\ Pending

SpecParse == InitParse /\ [][Next]_vars

---------------------------------------------------------------------------
(* Specification SpecStitch: stitch_motion over pairs of clips *)

StitchSkeletons ==
    { [root |-> r, kids |-> k, flat |-> FALSE] :
        r \in {"PR", "RP", "P"}, k \in {<<>>, <<"R">>} }

\* the "Frame Time:" tokens of clip A and clip B
FrameTimes ==
    { <<"0.5", "0.5">>, <<"1", "1">>, <<"0.25", "0.25">>, <<"0.5", "1">>,
      <<"0", "1">>, <<"abc", "1">>, <<"0.3", "0.5">>, <<"2", "2">>, <<"1", "0.5">>,
      <<"abc", "abc">> }

\* the "Frames:" tokens: the true count of rows, or another
FrameCounts == {"2", "7"}

\* the root heights clip A ends at and clip B starts at
EndHeights == {1, 3}

StartHeights == {1, 5}

\* Two clips of one skeleton: (1) clip A ending and clip B starting at
\* various root positions and headings, (2) various headers, (3) a word in
\* place of one number of clip B, (4) clip A ending and clip B starting at
\* various heights, for blends of 1, 2 and 4 frames.
InitStitch ==
    /\ \E sk \in StitchSkeletons :
          \/ \E xa \in 0..MaxCoord, xb \in 0..MaxCoord, zb \in 0..MaxCoord,
                ya \in {0, 90}, yb \in {0, -90} :
                /\ bvhText_1 = BVHText([PlainClip(sk) EXCEPT
                                   !.poses = <<Pose(0, 0, 0, 0), Pose(xa, 1, ya, 90)>>])
                /\ bvhText_2 = BVHText([PlainClip(sk) EXCEPT
                                   !.poses = <<Pose(xb, 0, yb, 0), Pose(1, zb, 90, 90)>>])
          \/ \E ft \in FrameTimes, fcA \in FrameCounts, fcB \in FrameCounts :
                /\ bvhText_1 = BVHText([PlainClip(sk) EXCEPT !.ft = ft[1], !.fc = fcA])
                /\ bvhText_2 = BVHText([PlainClip(sk) EXCEPT !.ft = ft[2], !.fc = fcB])
          \/ \E r \in 1..2, n \in 0..(Width(sk) - 1) :
                /\ bvhText_1 = BVHText(PlainClip(sk))
                /\ bvhText_2 = BVHText([PlainClip(sk) EXCEPT
                                   !.defect = [kind |-> "nan", row |-> r, n |-> n]])
          \/ \E ft \in {"1", "0.5", "0.25"}, ha \in EndHeights, hb \in StartHeights :
                /\ bvhText_1 = BVHText([PlainClip(sk) EXCEPT !.ft = ft,
                                   !.poses = <<Pose(0, 0, 0, 0), PoseAt(1, ha, 0, 90, 90)>>])
                /\ bvhText_2 = BVHText([PlainClip(sk) EXCEPT !.ft = ft,
                                   !.poses = <<PoseAt(0, hb, 1, 0, 0), Pose(1, 1, 90, 90)>>])
    /\ Pending

SpecStitch == InitStitch /\ [][Next]_vars

---------------------------------------------------------------------------
(* Specification SpecPage: the page's timers, buttons and uploads *)

PageSkeletons ==
    { [root |-> "PR", kids |-> k, flat |-> FALSE] : k \in {<<>>, <<"R">>} }

\* the "Frame Time:" token of both clips: blends of two frames and of one
\* frame, and a blend loop that never ends
PageFrameTimes == {"0.5", "1", "0"}

InitPage ==
    /\ \E sk \in PageSkeletons, ft \in PageFrameTimes :
          /\ bvhText_1 = BVHText([PlainClip(sk) EXCEPT !.ft = ft])
          /\ bvhText_2 = BVHText([PlainClip(sk) EXCEPT !.ft = ft])
    /\ Pending

SpecPage == InitPage /\ [][NextPage]_vars

---------------------------------------------------------------------------
(* Specification SpecParsed: the single-clip variant's page *)

\* the "Frames:" tokens: the true count of rows, a greater and a smaller
\* one, zero, and a word
ParsedFrameCounts == {"2", "7", "1", "0", "abc"}

\* clips of two rows
ParsedTexts ==
    { BVHText([PlainClip(sk) EXCEPT !.fc = fc]) :
        sk \in PageSkeletons, fc \in ParsedFrameCounts }

\* the texts a user uploads
UploadTexts ==
    { BVHText([PlainClip([root |-> "PR", kids |-> <<>>, flat |-> FALSE])
                  EXCEPT !.fc = fc]) : fc \in {"2", "7"} }
    \cup { << <<"MOTION">> >> }

\* the variant's page: init() at load, then the handlers and the timers
ParsedNext ==
    \/ ParsedInit
    \/ \E text \in UploadTexts : ParsedUpload(text)
    \/ ParsedPlayClick
    \/ ParsedTimerTick
    \/ ParsedAnimate

InitParsedPage ==
    /\ bvhText_1 \in ParsedTexts
    /\ bvhText_2 = <<>>
    /\ Pending

SpecParsed == InitParsedPage /\ [][ParsedNext]_vars

---------------------------------------------------------------------------
(* Claims about the evaluator (specification Spec) *)

\* the sum of channels.length over the joints 1 .. k of the heap
RECURSIVE SumChannels(_, _)
SumChannels(js, k) ==
    IF k = 0 THEN 0 ELSE Len(js[k].channels) + SumChannels(js, k - 1)

\* C1: after a full update() on an in-range frame the column cursor equals
\* the sum of channels.length over all joints of the tree.
C1_CursorIsChannelCount ==
    (lastUpdate.ran /\ lastUpdate.err = "")
        => lastUpdate.idx = SumChannels(joints, Len(joints))

\* the index of a channel name in a joint's CHANNELS list, 0-based, -1 when
\* the joint does not declare it
RECURSIVE DeclaredAt(_, _, _)
DeclaredAt(channels, name, k) ==
    IF k > Len(channels) THEN -1
    ELSE IF channels[k] = name THEN k - 1 ELSE DeclaredAt(channels, name, k + 1)

\* the column of a joint's channel in the frame-matrix layout: the joints are
\* numbered in pre-order, each contributes its CHANNELS list
LayoutIndex(js, id, name) ==
    SumChannels(js, id - 1) + DeclaredAt(js[id].channels, name, 1)

\* C2: every channel the evaluator reads is read from the column the
\* frame-matrix layout gives it (the channel's place in the pre-order
\* concatenation of the joints' CHANNELS lists).
C2_ReadsFollowLayout ==
    (lastUpdate.ran /\ lastUpdate.err = "")
        => \A k \in 1..Len(lastUpdate.reads) :
              LET r == lastUpdate.reads[k]
              IN  /\ DeclaredAt(joints[r.joint].channels, r.channel, 1) >= 0
                  /\ r.col = LayoutIndex(joints, r.joint, r.channel)

\* the frame row the last update() ran on
UpdatedRow == animator[1].frames[lastUpdate.frame + 1]

\* C3: an update() on a row with fewer columns than it consumes reports an
\* error; it never completes having read a missing column.
C3_TruncatedRowReported ==
    (lastUpdate.ran /\ lastUpdate.err = "")
        => \A k \in 1..Len(lastUpdate.reads) : lastUpdate.reads[k].col < Len(UpdatedRow)

---------------------------------------------------------------------------
(* Claims about the parser (specification SpecParse) *)

\* parseBVH has run on the first text
ParsedA == clipA.err # "not run"

\* the two conditions of C4, read off the text
FirstLineIsNotHierarchy ==
    LinesOf(bvhText_1) = <<>> \/ LinesOf(bvhText_1)[1] # <<"HIERARCHY">>

NoMotionLine ==
    \A i \in 1..Len(bvhText_1) : Trim(bvhText_1[i]) # <<"MOTION">>

\* C4: when the first non-empty trimmed line is not exactly "HIERARCHY", or
\* no trimmed line is exactly "MOTION", parseBVH throws one of its two
\* errors and nothing of the hierarchy or the motion reaches the caller.
C4_MissingSectionThrows ==
    (ParsedA /\ (FirstLineIsNotHierarchy \/ NoMotionLine))
        => /\ clipA.err \in {"Missing HIERARCHY", "Missing MOTION"}
           /\ clipA.js = <<>>
           /\ clipA.motion = NoMotion
           /\ clipA.decls = {}
           /\ initState = "failed"
           /\ animator = <<>>

\* C4 happens: the keyword is in the text, but not on its first line
C4_Witness ==
    /\ clipA.err = "Missing HIERARCHY"
    /\ \E i \in 1..Len(bvhText_1) : Trim(bvhText_1[i]) = <<"HIERARCHY">>
    /\ initState = "failed"

\* the number of "{" lines less the number of "}" lines among the first k
\* lines of a hierarchy section
RECURSIVE Depth(_, _)
Depth(h, k) ==
    IF k = 0 THEN 0
    ELSE Depth(h, k - 1) + (IF h[k] = <<"{">> THEN 1 ELSE IF h[k] = <<"}">> THEN -1 ELSE 0)

\* a block is never closed before the section ends
Unclosed(h) == Depth(h, Len(h)) > 0

\* the root block closes while hierarchy lines remain
ClosedEarly(h) == \E k \in 1..(Len(h) - 1) : h[k] = <<"}">> /\ Depth(h, k) <= 0

\* C5: a hierarchy section whose block nesting is malformed makes
\* parseHierarchy report an error: no joint tree is returned for it.
C5_MalformedNestingReported ==
    (ParsedA /\ (Unclosed(clipA.hierarchy) \/ ClosedEarly(clipA.hierarchy)))
        => clipA.err # ""

\* the line after a declaration line is exactly "{"
OpensBlock(h, i) == i + 1 < Len(h) /\ h[i + 2] = <<"{">>

\* C6: for every declaration line parseHierarchy consumes, at any depth, a
\* next line that is not exactly "{" makes it throw, and no tree is returned.
C6_DeclarationNeedsBlockOpen ==
    ParsedA =>
        \A i \in clipA.decls :
            ~OpensBlock(clipA.hierarchy, i)
                => /\ clipA.err = "Expected {"
                   /\ clipA.js = <<>>
                   /\ initState = "failed"
                   /\ animator = <<>>

\* C6 happens below the root: a second declaration is consumed and the line
\* after it is no "{"
C6_Witness ==
    /\ clipA.err = "Expected {"
    /\ \E i \in clipA.decls : i > 1 /\ ~OpensBlock(clipA.hierarchy, i)
    /\ \E i \in clipA.decls : OpensBlock(clipA.hierarchy, i)

\* C7: parseMotion never returns a frame count or a frame time that is not
\* a number: a missing or non-numeric token makes it fail.
C7_MotionHeaderNumeric ==
    (ParsedA /\ clipA.err = "")
        => IsNum(clipA.motion.frame_count) /\ IsNum(clipA.motion.frame_time)

---------------------------------------------------------------------------
(* Claims about stitch_motion (specification SpecStitch) *)

Stitched == motionData.err = ""

\* the root channel indices stitch_motion works with
StitchIx == RootIndices(clipA.js[1].channels)

\* C8: when both roots declare the same channels in the same order, the
\* first aligned frame of clip B has the root X and Z position of clip A's
\* last frame.
C8_AlignedStartMatchesEnd ==
    (Stitched /\ clipA.js[1].channels = clipB.js[1].channels
              /\ StitchIx.xPos >= 0 /\ StitchIx.zPos >= 0)
        => LET lastA == clipA.motion.frames[Len(clipA.motion.frames)]
               firstB == motionData.f2_aligned[1]
           IN  /\ StrictEquals(At(firstB, StitchIx.xPos), At(lastA, StitchIx.xPos))
               /\ StrictEquals(At(firstB, StitchIx.zPos), At(lastA, StitchIx.zPos))

\* the columns alignment rewrites: root X and Z position, root rotation
RewrittenColumns ==
    {StitchIx.xPos, StitchIx.zPos, StitchIx.xRot, StitchIx.yRot, StitchIx.zRot}

\* C9: every other column of every frame of clip B (the root Y position and
\* all columns of the other joints) has in the aligned frame the value it
\* has in the input frame, whatever that value is.
C9_OtherColumnsUntouched ==
    Stitched =>
        \A i \in 1..Len(clipB.motion.frames) :
            \A k \in 1..Len(clipB.motion.frames[i]) :
                (k - 1) \notin RewrittenColumns
                    => motionData.f2_aligned[i][k] = clipB.motion.frames[i][k]

\* C10: the matrix returned is clip A's frames, then the blend frames in
\* step order, then the aligned frames of clip B in clip B's order; the
\* count returned is |A| + N + |B| and is the number of rows returned,
\* whatever the "Frames:" headers say.
C10_StitchedIsConcatenation ==
    Stitched =>
        /\ motionData.stitched
              = clipA.motion.frames \o motionData.blendFrames \o motionData.f2_aligned
        /\ motionData.f2_aligned
              = AlignClip(clipA.motion.frames, clipB.motion.frames, StitchIx,
                          clipA.js[1].channel_order, clipB.js[1].channel_order)
        /\ motionData.blendFrames
              = BlendFrames(BlendFrameCount(MIX_DURATION, clipA.motion.frame_time),
                            motionData.blendMap,
                            clipA.motion.frames[Len(clipA.motion.frames)],
                            motionData.f2_aligned[1])
        /\ motionData.total_frames
              = Len(clipA.motion.frames) + Len(motionData.blendFrames)
                + Len(clipB.motion.frames)
        /\ motionData.total_frames = Len(motionData.stitched)

\* C10 happens: blend frames are generated and a header states another
\* count than the clip has rows
C10_Witness ==
    /\ Stitched
    /\ initState = "done"
    /\ Len(motionData.blendFrames) >= 2
    /\ clipA.motion.frame_count # I(Len(clipA.motion.frames))

\* the frame times the two clips' headers gave
FtA == clipA.motion.frame_time

FtB == clipB.motion.frame_time

\* C11: for a clip A with a positive frame time, the number N of blend
\* frames is ceil(1 / frame time of A), the least integer N with
\* N * frame_time >= 1 second; clip B's frame time and the frame counts of
\* the headers have no part in it.
C11_BlendCountIsCeiling ==
    (Stitched /\ IsNum(FtA) /\ FtA.n > 0)
        => LET N == Len(motionData.blendFrames)
           IN  /\ N * FtA.n >= MIX_DURATION * FtA.d
               /\ (N - 1) * FtA.n < MIX_DURATION * FtA.d

\* C11 happens: 1 / 0.3 is no integer, and clip B has another frame time
C11_Witness ==
    /\ Stitched
    /\ FtA = Rat(3, 10)
    /\ FtB # FtA
    /\ Len(motionData.blendFrames) = 4

\* C12: the frame time returned is clip A's when the two clips' frame times
\* are equal numbers, and the sentinel -1 in every other case (a frame time
\* that is not a number equals nothing); it is never clip B's own.
C12_FrameTimeOrSentinel ==
    Stitched =>
        motionData.frame_time
            = IF IsNum(FtA) /\ IsNum(FtB) /\ FtA.n * FtB.d = FtB.n * FtA.d
              THEN FtA ELSE I(-1)

\* C12 happens: two clips of different, positive frame times are stitched
C12_Witness ==
    /\ Stitched
    /\ IsNum(FtA) /\ IsNum(FtB) /\ FtA.n > 0 /\ FtB.n > 0 /\ FtA # FtB
    /\ motionData.frame_time = I(-1)

\* the root declares the position and rotation channels alignment works on
RootHasPose ==
    \A c \in {StitchIx.xPos, StitchIx.zPos, StitchIx.xRot, StitchIx.yRot, StitchIx.zRot} :
        c >= 0

\* the root columns of a frame hold numbers
RootNumeric(frame) ==
    \A c \in {StitchIx.xPos, StitchIx.yPos, StitchIx.zPos,
              StitchIx.xRot, StitchIx.yRot, StitchIx.zRot} :
        c >= 0 => IsNum(At(frame, c))

\* clip A's last frame, the anchor of the alignment
LastOfA == clipA.motion.frames[Len(clipA.motion.frames)]

\* the alignment step applied to the aligned clip B, against the same clip A
Realigned ==
    AlignClip(clipA.motion.frames, motionData.f2_aligned, StitchIx,
              clipA.js[1].channel_order, clipB.js[1].channel_order)

\* the yaw delta of that second application
SecondDelta ==
    DeltaQuat(LastOfA, motionData.f2_aligned[1], StitchIx,
              clipA.js[1].channel_order, clipB.js[1].channel_order)

\* C13: aligning is idempotent.  For roots that declare position and
\* rotation channels and hold numbers in them, aligning the aligned clip B
\* against the same clip A has a zero yaw delta and leaves the root X and Z
\* position and the root yaw of every frame as they are.
C13_AligningIsIdempotent ==
    (Stitched /\ RootHasPose /\ RootNumeric(LastOfA)
              /\ \A i \in 1..Len(clipB.motion.frames) : RootNumeric(clipB.motion.frames[i]))
        => /\ SecondDelta = YawQuat(I(0))
           /\ \A i \in 1..Len(motionData.f2_aligned) :
                 LET once == motionData.f2_aligned[i]
                     twice == Realigned[i]
                 IN  /\ StrictEquals(At(twice, StitchIx.xPos), At(once, StitchIx.xPos))
                     /\ StrictEquals(At(twice, StitchIx.zPos), At(once, StitchIx.zPos))
                     /\ YawOf(twice, StitchIx, clipB.js[1].channel_order)
                           = YawOf(once, StitchIx, clipB.js[1].channel_order)

\* C13 happens: the first alignment turned clip B by a quarter turn or more
\* and moved it
C13_Witness ==
    /\ Stitched /\ RootHasPose
    /\ YawOf(LastOfA, StitchIx, clipA.js[1].channel_order)
          # YawOf(clipB.motion.frames[1], StitchIx, clipB.js[1].channel_order)
    /\ At(motionData.f2_aligned[2], StitchIx.xPos) # At(clipB.motion.frames[2], StitchIx.xPos)
    /\ YawOf(LastOfA, StitchIx, clipA.js[1].channel_order) # YawQuat(I(0))

\* both texts parsed into clips that have frames
BothParsed ==
    /\ clipA.err = "" /\ clipB.err = ""
    /\ Len(clipA.motion.frames) > 0 /\ Len(clipB.motion.frames) > 0

\* C14: the parsers and stitch_motion terminate on every finite input.  For
\* two parsed clips with non-empty frame matrices, whatever frame time the
\* motion parser returned (0 included), the blend loop has a last iteration
\* and init() gets a result: the parser's cursor has stopped within one
\* line of the end of the hierarchy section and stitch_motion has returned.
C14_StitchTerminates ==
    (initState # "pending" /\ BothParsed)
        => /\ clipA.index <= Len(clipA.hierarchy) + 1
           /\ clipB.index <= Len(clipB.hierarchy) + 1
           /\ motionData.err # "never returns"
           /\ initState # "hung"

\* C15: init() handles the sentinel.  When the two clips' frame times
\* differ, no Animator is constructed whose timer period comes from -1: the
\* period handed to the interval timer is a positive number.
C15_SentinelHandled ==
    (animator # <<>> /\ IsNum(FtA) /\ IsNum(FtB) /\ FtA # FtB)
        => /\ IsNum(animator[1].timerPeriod)
           /\ animator[1].timerPeriod.n > 0

---------------------------------------------------------------------------
(* Claims about the blend map and the blend frames *)

\* the position channels declared in clip A's tree, as <<joint, place>>
PositionChannels ==
    { jk \in (1..Len(clipA.js)) \X (1..6) :
        /\ jk[2] <= Len(clipA.js[jk[1]].channels)
        /\ IsPosition(clipA.js[jk[1]].channels[jk[2]]) }

\* the joints of clip A's tree that declare a rotation channel
RotatingJoints ==
    { j \in 1..Len(clipA.js) :
        \E k \in 1..Len(clipA.js[j].channels) : IsRotation(clipA.js[j].channels[k]) }

\* the instructions of the blend map that write column c
WritersOf(c) ==
    { k \in 1..Len(motionData.blendMap) :
        LET ins == motionData.blendMap[k]
        IN  IF ins.type = "lerp" THEN ins.idx = c
            ELSE \E a \in 1..3 : ins.indices[a] = c }

\* C16: the blend map holds one lerp instruction per declared position
\* channel and one slerp instruction per joint that declares rotation
\* channels, all indices of a slerp instruction are defined, and every column
\* 0 .. (total channel count - 1) is written by exactly one instruction; so
\* every blend frame has all these columns, each written by interpolation.
C16_BlendMapCoversColumns ==
    Stitched =>
        LET map == motionData.blendMap
            total == SumChannels(clipA.js, Len(clipA.js))
        IN  /\ Cardinality({k \in 1..Len(map) : map[k].type = "lerp"})
                  = Cardinality(PositionChannels)
            /\ Cardinality({k \in 1..Len(map) : map[k].type = "slerp"})
                  = Cardinality(RotatingJoints)
            /\ \A k \in 1..Len(map) :
                  map[k].type = "slerp" => \A a \in 1..3 : map[k].indices[a] >= 0
            /\ \A c \in 0..(total - 1) : Cardinality(WritersOf(c)) = 1
            /\ \A i \in 1..Len(motionData.blendFrames) :
                  Len(motionData.blendFrames[i]) >= total

\* C16 happens: a tree of three joints, one below the root declaring
\* position and rotation channels, and blend frames generated from its map
C16_Witness ==
    /\ Stitched
    /\ Len(clipA.js) = 3
    /\ \E jk \in PositionChannels : jk[1] > 1
    /\ Cardinality(RotatingJoints) >= 2
    /\ Len(motionData.blendFrames) >= 2

\* p < q on rationals
Less(p, q) == p.n * q.d < q.n * p.d

\* strictly between two different numbers
Between(v, a, b) == (Less(a, v) /\ Less(v, b)) \/ (Less(b, v) /\ Less(v, a))

\* the columns the blend map interpolates linearly
LerpColumns ==
    { motionData.blendMap[k].idx :
        k \in { k \in 1..Len(motionData.blendMap) : motionData.blendMap[k].type = "lerp" } }

\* the value of column c in blend frame i, and in the two frames blended
BlendValue(i, c) == At(motionData.blendFrames[i], c)

StartValue(c) == At(LastOfA, c)

EndValue(c) == At(motionData.f2_aligned[1], c)

\* C17: in blend frame i of N a lerp column holds
\* A_last + (B_first_aligned - A_last) * i / (N + 1).  Between two different
\* numbers the values lie strictly inside, move from the first towards the
\* second as i grows, and for N = 1 the value is the midpoint.
C17_LerpIsInterior ==
    Stitched =>
        LET N == Len(motionData.blendFrames)
        IN  \A c \in LerpColumns :
              /\ \A i \in 1..N :
                    BlendValue(i, c)
                        = JsAdd(StartValue(c),
                                JsMul(JsSub(EndValue(c), StartValue(c)), Rat(i, N + 1)))
              /\ (IsNum(StartValue(c)) /\ IsNum(EndValue(c)) /\ StartValue(c) # EndValue(c))
                    => /\ \A i \in 1..N :
                             /\ IsNum(BlendValue(i, c))
                             /\ Between(BlendValue(i, c), StartValue(c), EndValue(c))
                       /\ \A i \in 1..(N - 1) :
                             Between(BlendValue(i + 1, c), BlendValue(i, c), EndValue(c))
                       /\ N = 1 => JsAdd(BlendValue(1, c), BlendValue(1, c))
                                      = JsAdd(StartValue(c), EndValue(c))

\* C17 happens: four blend frames between two different heights
C17_Witness ==
    /\ Stitched
    /\ Len(motionData.blendFrames) = 4
    /\ \E c \in LerpColumns :
          /\ IsNum(StartValue(c)) /\ IsNum(EndValue(c))
          /\ Less(EndValue(c), StartValue(c))
          /\ Less(BlendValue(4, c), BlendValue(1, c))

---------------------------------------------------------------------------
(* Claims about the joint tree *)

\* the axis letters of the rotation channels of a CHANNELS list, in the
\* order declared
RotationAxes(channels) ==
    LET rots == SelectSeq(channels, IsRotation)
    IN  [i \in 1..Len(rots) |-> FirstChar(rots[i])]

\* C18: the channel_order of every joint parseHierarchy produces lists the
\* axes of the joint's rotation channels in declared order, so its length is
\* the number of rotation channels: 0 for a joint without CHANNELS or with
\* position channels only, 3 for a joint with three rotation channels.
C18_ChannelOrderIsRotations ==
    (ParsedA /\ clipA.err = "")
        => \A j \in 1..Len(clipA.js) :
              clipA.js[j].channel_order = RotationAxes(clipA.js[j].channels)

\* the joints parseHierarchy created for the first text
Tree == clipA.js

\* the places <<p, k>> where joint j stands in a children list
PlacesOf(j) ==
    { pk \in (1..Len(Tree)) \X (1..Len(Tree)) :
        pk[2] <= Len(Tree[pk[1]].children) /\ Tree[pk[1]].children[pk[2]] = j }

\* the joints reached from j by following parent at most n times
RECURSIVE Up(_, _)
Up(j, n) ==
    IF n = 0 \/ Tree[j].parent = 0 THEN {}
    ELSE {Tree[j].parent} \cup Up(Tree[j].parent, n - 1)

\* the (0-based) index of the declaration line of joint j: joints are
\* created one per declaration line consumed, in the order of the text
DeclLine(j) ==
    CHOOSE d \in clipA.decls : Cardinality({e \in clipA.decls : e < d}) = j - 1

\* the CHANNELS list written in the block that line d declares (the block
\* opens with "{" and an OFFSET line)
DeclaredChannels(d) ==
    LET h == clipA.hierarchy
    IN  IF d + 4 <= Len(h) /\ StartsWith(h[d + 4], <<"CHANNELS">>)
        THEN SubSeq(h[d + 4], 3, Len(h[d + 4])) ELSE <<>>

\* C19: what parseHierarchy returns is a rooted tree.  The joint returned is
\* the only one with a null parent; every other joint created stands once,
\* in the children list of one joint, which its parent field names; no joint
\* is its own ancestor; every joint is the one its declaration line and
\* block describe, and a children list is in the order of the text.
C19_RootedTree ==
    (ParsedA /\ clipA.err = "")
        => /\ Len(Tree) >= 1
           /\ Cardinality(clipA.decls) = Len(Tree)
           /\ \A j \in 1..Len(Tree) :
                 /\ (Tree[j].parent = 0) <=> (j = 1)
                 /\ j > 1 => /\ Cardinality(PlacesOf(j)) = 1
                              /\ \A pk \in PlacesOf(j) : pk[1] = Tree[j].parent
                 /\ j = 1 => PlacesOf(j) = {}
                 /\ j \notin Up(j, Len(Tree))
                 /\ Tree[j].name = JointName(clipA.hierarchy[DeclLine(j) + 1])
                 /\ Tree[j].channels = DeclaredChannels(DeclLine(j))
                 /\ \A k \in 1..(Len(Tree[j].children) - 1) :
                       DeclLine(Tree[j].children[k]) < DeclLine(Tree[j].children[k + 1])
                 /\ \A k \in 1..Len(Tree[j].children) :
                       DeclLine(j) < DeclLine(Tree[j].children[k])

\* C19 happens: a root with two child blocks of different kinds
C19_Witness ==
    /\ ParsedA /\ clipA.err = ""
    /\ Len(Tree) = 3
    /\ Tree[1].children = <<2, 3>>
    /\ Tree[2].channels # Tree[3].channels
    /\ Tree[2].parent = 1 /\ Tree[3].parent = 1

---------------------------------------------------------------------------
(* Claims about the evaluator's effects *)

\* a joint without its evaluated pose
Unposed(joint) ==
    [joint EXCEPT !.position = Vec3(I(0), I(0), I(0)), !.quaternion = QIdentity]

\* C20: update() changes only the evaluated pose.  In every step that runs
\* update() the frame matrix, frame_count and the frame index update() ran
\* on are left as they are, every joint keeps its name, offset, channels,
\* channel_order, parent and children, and only the root's position and the
\* joints' quaternions may differ.
C20_UpdateChangesPoseOnly ==
    [][ (animator # <<>> /\ lastUpdate'.ran)
            => /\ animator' # <<>>
               /\ animator'[1].frames = animator[1].frames
               /\ animator'[1].frame_count = animator[1].frame_count
               /\ animator'[1].frame = lastUpdate'.frame
               /\ Len(joints') = Len(joints)
               /\ \A j \in 1..Len(joints) :
                     /\ Unposed(joints'[j]) = Unposed(joints[j])
                     /\ j > 1 => joints'[j].position = joints[j].position ]_vars

\* C20 happens: update() has run on a frame the slider chose and posed the
\* root away from its offset
C20_Witness ==
    /\ lastUpdate.ran /\ lastUpdate.err = ""
    /\ lastUpdate.frame > 0
    /\ joints[1].position # joints[1].offset
    /\ \E j \in 1..Len(joints) : joints[j].quaternion # QIdentity

---------------------------------------------------------------------------
(* Claims relating the blend map to the evaluator *)

\* the slerp instruction createBlendMap stores for the joint j: the slerp
\* instructions follow the joints that declare a rotation channel, in
\* pre-order
SlerpOf(j) ==
    LET map == motionData.blendMap
        slerps == { k \in 1..Len(map) : map[k].type = "slerp" }
        n == Cardinality({ i \in RotatingJoints : i <= j })
    IN  map[CHOOSE k \in slerps : Cardinality({ i \in slerps : i <= k }) = n]

\* the lerp instruction createBlendMap stores for the n-th position channel
\* of the root: the root is scanned first
RootLerp(n) ==
    LET map == motionData.blendMap
        lerps == { k \in 1..Len(map) : map[k].type = "lerp" }
    IN  map[CHOOSE k \in lerps : Cardinality({ i \in lerps : i <= k }) = n]

\* the columns the last update() read for a joint's channel
ColumnsRead(j, channel) ==
    { lastUpdate.reads[k].col :
        k \in { i \in 1..Len(lastUpdate.reads) :
                  /\ lastUpdate.reads[i].joint = j
                  /\ lastUpdate.reads[i].channel = channel } }

\* the position channels of the root, in declared order
RootPositionChannels ==
    SelectSeq(clipA.js[1].channels, IsPosition)

\* C21: the blend generator and the evaluator agree on the column layout:
\* for every joint that declares rotation channels and every rotation axis
\* it declares, the column in the joint's slerp instruction is the column
\* transformJoint reads for that axis, and the lerp instruction of every root
\* position channel names the column transformJoint reads for it.
C21_BlendMapMatchesEvaluator ==
    (Stitched /\ lastUpdate.ran /\ lastUpdate.err = "")
        => /\ \A j \in RotatingJoints :
                \A a \in 1..3 :
                   LET channel == <<"Xrotation", "Yrotation", "Zrotation">>[a]
                   IN  DeclaredAt(clipA.js[j].channels, channel, 1) >= 0
                          => ColumnsRead(j, channel) = {SlerpOf(j).indices[a]}
           /\ \A n \in 1..Len(RootPositionChannels) :
                ColumnsRead(1, RootPositionChannels[n]) = {RootLerp(n).idx}

---------------------------------------------------------------------------
(* Claims about the page (specifications SpecParsed and SpecPage) *)

\* the rows of the animator's frame matrix, as 0-based indices
FrameRows == 0..(Len(animator[1].frames) - 1)

\* C22: after any sequence of timer ticks, play clicks and uploads on an
\* Animator built from a parsed clip, Animator.frame is an integer with
\* 0 <= frame < (number of rows of the frame matrix) and every update() has
\* read an existing frame row, whatever the "Frames:" line says.
C22_FrameStaysInRows ==
    animator # <<>>
        => /\ FrameIndex(animator[1].frame) \in FrameRows
           /\ lastUpdate.ran => lastUpdate.frame \in FrameRows

\* the Animators whose interval timer is live
LiveTimers == { i \in 1..Len(timers) : timers[i] }

\* C23: after any sequence of init() runs, overlapping ones included, at
\* most one interval timer is live, and it is the timer of the current
\* animator: the timer of every earlier Animator was cleared before the next
\* was constructed.
C23_OneLiveTimer ==
    /\ Cardinality(LiveTimers) <= 1
    /\ LiveTimers = IF animator = <<>> THEN {} ELSE {Len(timers)}

\* C23 happens: two init() runs started by uploads have each constructed an
\* Animator while the init() that main awaits was still awaiting its fetches
C23_Witness ==
    /\ initState = "pending"
    /\ Len(timers) >= 2
    /\ animator # <<>>

\* C24: whenever the play button's click handler or the slider's input
\* handler runs, the global animator is not null: no handler has thrown on
\* reading a property of a null animator.
C24_HandlersSeeAnimator ==
    handler.name \in {"play", "slider"} => handler.err # NullAnimator

\* C25: whenever no init() run is in progress, the play button reads
\* "Pause" exactly when the current animator's isPlaying is true, and "Play"
\* otherwise.
C25_ButtonShowsPlaying ==
    (initState \in {"done", "failed"} /\ uploads = 0)
        => /\ playButton \in {"Play", "Pause"}
           /\ playButton = "Pause" <=> (animator # <<>> /\ animator[1].isPlaying)

===========================================================================
